---------------------------- MODULE Spec2Model ----------------------------
(***************************************************************************)
(* Persistence layer of the teacher-registration backend (src/db_layer.py).*)
(* Two interchangeable backends, selected once by USE_FIREBASE: an         *)
(* embedded SQLite store and a Firestore document store.                   *)
(*                                                                         *)
(* Encoding of Python values.  A dict is a TLA+ function from key strings  *)
(* to values.  Ids and timestamps are naturals (a timestamp is the number  *)
(* of whole seconds shown by _now_str).  Every other value is a string:    *)
(* "None" stands for Python's None, a quoted numeral such as "'40'" for    *)
(* the str '40' and a bare numeral such as "40" for the int 40.            *)
(***************************************************************************)
EXTENDS Integers, Sequences, FiniteSets, TLC

\* ------------------------------------------------------------- bounds
\* Largest id either backend hands out before the model stops inserting.
MaxId == 2
\* Largest value of the second-resolution clock.
MaxClock == 1
\* Number of callers that share the Firestore store.
NumProcs == 2

VARIABLES
    USE_FIREBASE,   \* backend flag, read once at import
    resolution,     \* how the Firebase client resolves in this environment
    initialization_attempted,   \* _initialization_attempted
    firebase_available,         \* _firebase_available
    db_instance,                \* _db_instance: 0 for None, else the client object
    clock,          \* what _now_str() returns
    sqlSchema,      \* SQLite: the two tables exist
    sqlProf,        \* SQLite: table professores, rowid -> row
    sqlRasc,        \* SQLite: table rascunhos_professores, rowid -> row
    sqlSeq,         \* SQLite: sqlite_sequence, table name -> last rowid
    unclosed,       \* SQLite: a connection some call opened is still open
    fsMeta,         \* Firestore: document _meta/counters (<<>> when absent)
    fsProf,         \* Firestore: collection professores, n -> the document named str(n)
    fsRasc,         \* Firestore: collection rascunhos_professores
    ret,            \* the last call: operation, id argument, error, value
    issued,         \* ids handed out so far, per entity, in order of assignment
    pc,             \* concurrent callers: where each one is in its call
    loc             \* concurrent callers: the local variables of the call

vars == <<USE_FIREBASE, resolution, initialization_attempted, firebase_available,
          db_instance, clock, sqlSchema, sqlProf, sqlRasc, sqlSeq, unclosed,
          fsMeta, fsProf, fsRasc, ret, issued, pc, loc>>

envVars == <<USE_FIREBASE, resolution>>
latchVars == <<initialization_attempted, firebase_available, db_instance>>

sqlVars == <<sqlSchema, sqlProf, sqlRasc, sqlSeq>>
sqlSide == <<sqlVars, unclosed>>
fsVars == <<fsMeta, fsProf, fsRasc>>
procVars == <<pc, loc>>
Procs == 1..NumProcs

\* ------------------------------------------------------- Python helpers
Empty == <<>>

\* dict.get(k, default)
Get(d, k, default) == IF k \in DOMAIN d THEN d[k] ELSE default

\* d1.update(d2) on a copy: keys of d2 win
Merge(d1, d2) ==
    [k \in DOMAIN d1 \cup DOMAIN d2 |-> IF k \in DOMAIN d2 THEN d2[k] ELSE d1[k]]

MaxOf(S) == IF S = {} THEN 0 ELSE CHOOSE m \in S : \A x \in S : x <= m

\* int(v) for the values the inputs carry
PyInt(v) ==
    CASE v = "'40'" -> "40"
      [] v = "True" -> "1"
      [] v = "False" -> "0"
      [] OTHER -> v

\* ------------------------------------------------------------- schema
\* The columns insert_professor and update_professor write, in source order.
Cols == <<"nome", "cpf", "rg", "matricula", "escola", "cargo",
          "situacao_servidor", "data_admissao", "telefone", "email", "endereco",
          "banco", "agencia", "conta", "tipo_conta",
          "data_inicio_fundef", "data_fim_fundef", "carga_horaria",
          "quantidade_meses_trabalhados", "aceitou_declaracao">>
ColSet == {Cols[i] : i \in 1..Len(Cols)}
IntCols == {"carga_horaria", "quantidade_meses_trabalhados", "aceitou_declaracao"}

\* ------------------------------------------------------------- inputs
\* A complete registration form.
FullData(nome, cpf) ==
    [c \in ColSet |->
        CASE c = "nome" -> nome
          [] c = "cpf" -> cpf
          [] c = "carga_horaria" -> "'40'"
          [] c = "quantidade_meses_trabalhados" -> "12"
          [] c = "aceitou_declaracao" -> "True"
          [] OTHER -> "x"]

RecordInputs == {FullData("Ana", "111"), FullData("Bia", "222"), FullData("Bia", "111")}
\* update_professor is also called with a subset of the fields.
UpdateInputs == RecordInputs \cup {[nome |-> "Cid"]}
\* ... and with a dict that has keys named like the bookkeeping fields.
UpdateInputsWithKeys ==
    UpdateInputs \cup {[nome |-> "Dan", id |-> MaxId + 1, criado_em |-> MaxClock + 1]}
RecordIds == 1..(MaxId + 1)

\* Draft payloads: partially filled forms, one of them with keys named like
\* the bookkeeping fields.
DraftInputs ==
    {[nome |-> "Ana"],
     [nome |-> "Ana B", cpf |-> "111"],
     [nome |-> "Eva", id |-> 2, criado_em |-> MaxClock + 1]}
DraftIds == 1..(MaxId + 1)

\* ---------------------------------------------------------------- Init
\* What the environment lets _safely_initialize_firebase do: resolve a client,
\* or fail because firebase_admin cannot be imported, because no credential is
\* usable, or because the app or the client cannot be created.  The SQLite
\* branch never touches db, so the environment is drawn for Firestore only.
Resolutions == {"ok", "ImportError", "no credential", "app error"}

NoCall == [op |-> "none", id |-> 0, err |-> "none", val |-> 0]

\* The last call: its name and id argument (0 when it has none or None is
\* passed), the exception it raised ("none" when it returned) and the value
\* it returned (0 for None).
Result(op, id, err, val) == [op |-> op, id |-> id, err |-> err, val |-> val]

NoLocals == [name |-> "", data |-> Empty, snapshot |-> Empty, novo |-> 0]

Init ==
    /\ USE_FIREBASE \in BOOLEAN
    /\ resolution \in IF USE_FIREBASE THEN Resolutions ELSE {"ok"}
    /\ initialization_attempted = FALSE
    /\ firebase_available = FALSE
    /\ db_instance = 0
    /\ clock = 0
    /\ sqlSchema = FALSE
    /\ sqlProf = Empty
    /\ sqlRasc = Empty
    /\ sqlSeq = [professores |-> 0, rascunhos_professores |-> 0]
    /\ unclosed = FALSE
    /\ fsMeta = Empty
    /\ fsProf = Empty
    /\ fsRasc = Empty
    /\ ret = NoCall
    /\ issued = [professor |-> <<>>, rascunho |-> <<>>]
    /\ pc = [p \in Procs |-> "idle"]
    /\ loc = [p \in Procs |-> NoLocals]

\* The wall clock moves on between calls.
Tick ==
    /\ clock < MaxClock
    /\ clock' = clock + 1
    /\ UNCHANGED <<procVars, envVars, latchVars, sqlSide, fsVars, ret, issued>>

\* --------------------------------------------------------------- SQLite
\* The SQLite store as one value, and the outcome of a call on it: the
\* exception raised ("none" when the call returns), the value returned and the
\* store the call leaves behind.
SqlStore == [schema |-> sqlSchema, prof |-> sqlProf, rasc |-> sqlRasc, seq |-> sqlSeq]
Outcome(err, val, store) == [err |-> err, val |-> val, store |-> store]

\* with get_connection() as conn: the block commits or rolls back and leaves
\* the connection open, and nothing calls conn.close().  The connection is
\* closed when the runtime finalises the Connection object, which it may do
\* as the call returns or raises, or later.
WithConnection == unclosed' \in {unclosed, TRUE}

\* The runtime finalises the Connection objects no call holds any more.
Finalize ==
    /\ unclosed
    /\ unclosed' = FALSE
    /\ UNCHANGED <<procVars, envVars, latchVars, clock, sqlVars, fsVars, ret, issued>>

SqlStoreBecomes(store) ==
    /\ WithConnection
    /\ sqlSchema' = store.schema
    /\ sqlProf' = store.prof
    /\ sqlRasc' = store.rasc
    /\ sqlSeq' = store.seq

\* The call is over: the store is as the outcome says and ret describes it.
ReturnSqlite(op, id, r) ==
    /\ SqlStoreBecomes(r.store)
    /\ ret' = Result(op, id, r.err, r.val)

\* CREATE TABLE IF NOT EXISTS, twice, committed by the with block.
InitDbSqlite == Outcome("none", 0, [SqlStore EXCEPT !.schema = TRUE])

init_db_sqlite ==
    /\ ~USE_FIREBASE
    /\ ReturnSqlite("init_db", 0, InitDbSqlite)
    /\ UNCHANGED <<procVars, envVars, latchVars, clock, fsVars, issued>>

\* INTEGER PRIMARY KEY: without AUTOINCREMENT the rowid is one more than the
\* largest rowid now in the table.
RowidWithoutAutoincrement(seq, table) == MaxOf(DOMAIN table) + 1

\* INTEGER PRIMARY KEY AUTOINCREMENT: one more than the largest rowid the
\* table ever held (sqlite_sequence), or now holds.
AutoIncrement(seq, table) == MaxOf({seq} \cup DOMAIN table) + 1

\* The row insert_professor binds to the 21 placeholders.
InsertRow(data, now) ==
    [c \in ColSet \cup {"criado_em"} |->
        CASE c = "criado_em" -> now
          [] c \in IntCols -> PyInt(Get(data, c, "0"))
          [] OTHER -> Get(data, c, "None")]

\* NOT NULL on every column.
NotNullOk(row) == \A c \in DOMAIN row : c \in ColSet => row[c] # "None"

\* cpf TEXT NOT NULL UNIQUE, checked against every other row.
UniqueCpfOk(table, rowid, row) ==
    \A r \in DOMAIN table : r # rowid => table[r]["cpf"] # row["cpf"]

InsertProfessorSqlite(data) ==
    LET row == InsertRow(data, clock)
        rowid == AutoIncrement(sqlSeq.professores, sqlProf)
    IN  IF ~sqlSchema
        THEN Outcome("OperationalError", 0, SqlStore)
        ELSE IF ~(NotNullOk(row) /\ UniqueCpfOk(sqlProf, rowid, row))
        THEN Outcome("IntegrityError", 0, SqlStore)
        ELSE Outcome("none", rowid,
                     [SqlStore EXCEPT
                         !.prof = [r \in DOMAIN sqlProf \cup {rowid} |->
                                     IF r = rowid THEN Merge(row, [id |-> rowid])
                                     ELSE sqlProf[r]],
                         !.seq = [sqlSeq EXCEPT !.professores = rowid]])

insert_professor_sqlite(data) ==
    /\ ~USE_FIREBASE
    /\ sqlSeq.professores < MaxId
    /\ LET r == InsertProfessorSqlite(data)
       IN  /\ ReturnSqlite("insert_professor", 0, r)
           /\ issued' = IF r.err = "none"
                         THEN [issued EXCEPT !.professor = Append(@, r.val)]
                         ELSE issued
    /\ UNCHANGED <<procVars, envVars, latchVars, clock, fsVars>>

\* Column affinity: a numeral stored as text in an INTEGER column, or a
\* Python bool, is kept as the integer.
Affinity(c, v) == IF c \in IntCols THEN PyInt(v) ELSE v

\* UPDATE professores SET <all 20 columns> WHERE id = ?
UpdateProfessorSqlite(professor_id, data) ==
    LET vals == [c \in ColSet |-> Affinity(c, Get(data, c, "None"))]
    IN  IF ~sqlSchema
        THEN Outcome("OperationalError", 0, SqlStore)
        ELSE IF professor_id \notin DOMAIN sqlProf
        THEN Outcome("none", 0, SqlStore)
        ELSE LET row == Merge(sqlProf[professor_id], vals)
             IN  IF ~(NotNullOk(row) /\ UniqueCpfOk(sqlProf, professor_id, row))
                 THEN Outcome("IntegrityError", 0, SqlStore)
                 ELSE Outcome("none", 0,
                              [SqlStore EXCEPT !.prof = [sqlProf EXCEPT ![professor_id] = row]])

update_professor_sqlite(professor_id, data) ==
    /\ ~USE_FIREBASE
    /\ ReturnSqlite("update_professor", professor_id, UpdateProfessorSqlite(professor_id, data))
    /\ UNCHANGED <<procVars, envVars, latchVars, clock, fsVars, issued>>

\* DELETE FROM <table> WHERE id = ?
DeleteRow(table, rowid) == [r \in DOMAIN table \ {rowid} |-> table[r]]

DeleteProfessorSqlite(professor_id) ==
    IF ~sqlSchema
    THEN Outcome("OperationalError", 0, SqlStore)
    ELSE Outcome("none", 0, [SqlStore EXCEPT !.prof = DeleteRow(sqlProf, professor_id)])

delete_professor_sqlite(professor_id) ==
    /\ ~USE_FIREBASE
    /\ ReturnSqlite("delete_professor", professor_id, DeleteProfessorSqlite(professor_id))
    /\ UNCHANGED <<procVars, envVars, latchVars, clock, fsVars, issued>>

\* ORDER BY: the rowids of S in the order given by the pairs of before.
OrderedBy(S, before) ==
    CHOOSE s \in [1..Cardinality(S) -> S] :
        \A i, j \in 1..Cardinality(S) : i < j => <<s[i], s[j]>> \in before

\* SELECT * FROM professores WHERE cpf = ?, fetchone(): None (<<>>) or the
\* first matching row, the one with the smallest rowid.
find_professor_by_cpf_sqlite(cpf) ==
    IF ~sqlSchema THEN [err |-> "OperationalError", val |-> Empty]
    ELSE LET hits == {r \in DOMAIN sqlProf : sqlProf[r]["cpf"] = cpf}
         IN  IF hits = {} THEN [err |-> "none", val |-> Empty]
             ELSE [err |-> "none",
                   val |-> sqlProf[CHOOSE r \in hits : \A other \in hits : r <= other]]

\* SELECT * FROM professores WHERE id = ?: None (<<>>) or the row as a dict
get_professor_sqlite(professor_id) ==
    IF ~sqlSchema THEN [err |-> "OperationalError", val |-> Empty]
    ELSE IF professor_id \notin DOMAIN sqlProf THEN [err |-> "none", val |-> Empty]
    ELSE [err |-> "none", val |-> sqlProf[professor_id]]

list_professores_sqlite(order_desc) ==
    IF ~sqlSchema THEN [err |-> "OperationalError", val |-> <<>>]
    ELSE LET rowids == DOMAIN sqlProf
             desc == {pair \in rowids \X rowids : pair[1] > pair[2]}
             asc == {pair \in rowids \X rowids : pair[1] < pair[2]}
             ids == OrderedBy(rowids, IF order_desc THEN desc ELSE asc)
         IN  [err |-> "none", val |-> [i \in 1..Len(ids) |-> sqlProf[ids[i]]]]

\* The 21 columns export_professores selects.
ExportCols == (ColSet \ {"aceitou_declaracao"}) \cup {"id", "criado_em"}

\* SELECT id, nome, ..., quantidade_meses_trabalhados, criado_em
\*   FROM professores ORDER BY id DESC
export_professores_sqlite ==
    IF ~sqlSchema THEN [err |-> "OperationalError", val |-> <<>>]
    ELSE LET rowids == DOMAIN sqlProf
             desc == {pair \in rowids \X rowids : pair[1] > pair[2]}
             ids == OrderedBy(rowids, desc)
         IN  [err |-> "none",
              val |-> [i \in 1..Len(ids) |-> [c \in ExportCols |-> sqlProf[ids[i]][c]]]]

\* json.dumps(dados, ensure_ascii=False) and json.loads: None, True and False
\* are written null, true and false; the keys that carry naturals in this
\* model are written as numbers.
NatKeys == {"id", "criado_em", "atualizado_em"}

JsonText(v) ==
    CASE v = "None" -> "null"
      [] v = "True" -> "true"
      [] v = "False" -> "false"
      [] OTHER -> v

PyValue(j) ==
    CASE j = "null" -> "None"
      [] j = "true" -> "True"
      [] j = "false" -> "False"
      [] OTHER -> j

JsonDumps(d) == [k \in DOMAIN d |-> IF k \in NatKeys THEN d[k] ELSE JsonText(d[k])]
JsonLoads(j) == [k \in DOMAIN j |-> IF k \in NatKeys THEN j[k] ELSE PyValue(j[k])]

\* The four values save_rascunho binds besides the timestamps.
DraftCols(dados) ==
    [nome_referencia |-> Get(dados, "nome", ""),
     cpf |-> Get(dados, "cpf", ""),
     dados_json |-> JsonDumps(dados)]

\* rascunho_id is None
NoId == 0

SaveRascunhoSqlite(dados, rascunho_id) ==
    LET agora == clock
        existente == rascunho_id # NoId /\ rascunho_id \in DOMAIN sqlRasc
        rowid == AutoIncrement(sqlSeq.rascunhos_professores, sqlRasc)
    IN  IF ~sqlSchema
        THEN Outcome("OperationalError", 0, SqlStore)
        ELSE IF existente
        THEN Outcome("none", rascunho_id,
                     [SqlStore EXCEPT
                         !.rasc = [sqlRasc EXCEPT ![rascunho_id] =
                                     Merge(@, Merge(DraftCols(dados),
                                                    [atualizado_em |-> agora]))]])
        ELSE Outcome("none", rowid,
                     [SqlStore EXCEPT
                         !.rasc = [r \in DOMAIN sqlRasc \cup {rowid} |->
                                     IF r = rowid
                                     THEN Merge(DraftCols(dados),
                                                [id |-> rowid, criado_em |-> agora,
                                                 atualizado_em |-> agora])
                                     ELSE sqlRasc[r]],
                         !.seq = [sqlSeq EXCEPT !.rascunhos_professores = rowid]])

\* The call reaches the INSERT statement.
InsertsDraftSqlite(rascunho_id) ==
    sqlSchema /\ ~(rascunho_id # NoId /\ rascunho_id \in DOMAIN sqlRasc)

save_rascunho_sqlite(dados, rascunho_id) ==
    /\ ~USE_FIREBASE
    /\ InsertsDraftSqlite(rascunho_id) => sqlSeq.rascunhos_professores < MaxId
    /\ LET r == SaveRascunhoSqlite(dados, rascunho_id)
       IN  /\ ReturnSqlite("save_rascunho", rascunho_id, r)
           /\ issued' = IF InsertsDraftSqlite(rascunho_id)
                         THEN [issued EXCEPT !.rascunho = Append(@, r.val)]
                         ELSE issued
    /\ UNCHANGED <<procVars, envVars, latchVars, clock, fsVars>>

\* None, or {"id", "dados", "criado_em", "atualizado_em"}
carregar_rascunho_sqlite(rascunho_id) ==
    IF ~sqlSchema THEN [err |-> "OperationalError", val |-> Empty]
    ELSE IF rascunho_id \notin DOMAIN sqlRasc THEN [err |-> "none", val |-> Empty]
    ELSE LET r == sqlRasc[rascunho_id]
         IN  [err |-> "none",
              val |-> [id |-> r["id"], dados |-> JsonLoads(r["dados_json"]),
                       criado_em |-> r["criado_em"],
                       atualizado_em |-> r["atualizado_em"]]]

RemoverRascunhoSqlite(rascunho_id) ==
    IF ~sqlSchema
    THEN Outcome("OperationalError", 0, SqlStore)
    ELSE Outcome("none", 0, [SqlStore EXCEPT !.rasc = DeleteRow(sqlRasc, rascunho_id)])

remover_rascunho_sqlite(rascunho_id) ==
    /\ ~USE_FIREBASE
    /\ ReturnSqlite("remover_rascunho", rascunho_id, RemoverRascunhoSqlite(rascunho_id))
    /\ UNCHANGED <<procVars, envVars, latchVars, clock, fsVars, issued>>

\* SELECT id, nome_referencia, cpf, atualizado_em, criado_em
\*   ORDER BY datetime(atualizado_em) DESC, id DESC
list_rascunhos_sqlite ==
    IF ~sqlSchema THEN [err |-> "OperationalError", val |-> <<>>]
    ELSE LET rowids == DOMAIN sqlRasc
             before ==
                 {pair \in rowids \X rowids :
                     \/ sqlRasc[pair[1]]["atualizado_em"] > sqlRasc[pair[2]]["atualizado_em"]
                     \/ /\ sqlRasc[pair[1]]["atualizado_em"] = sqlRasc[pair[2]]["atualizado_em"]
                        /\ pair[1] > pair[2]}
             ids == OrderedBy(rowids, before)
             Selected == {"id", "nome_referencia", "cpf", "atualizado_em", "criado_em"}
         IN  [err |-> "none",
              val |-> [i \in 1..Len(ids) |-> [c \in Selected |-> sqlRasc[ids[i]][c]]]]

\* ------------------------------------------------------ Firebase client
\* The setup of _safely_initialize_firebase(): import firebase_admin, find a
\* credential, initialize the app, create the client.  TRUE when the client
\* was created; every failure is caught and gives FALSE.
FirebaseSetup == resolution = "ok"

\* _safely_initialize_firebase(): the value it returns.  The first call tries
\* to resolve a client and latches the result, later calls return the latch.
safely_initialize_firebase ==
    IF initialization_attempted THEN firebase_available
    ELSE USE_FIREBASE /\ FirebaseSetup

\* The globals a call of _safely_initialize_firebase() leaves, when no other
\* call runs during it.  A first call that succeeds stores the client it made.
Latched ==
    /\ initialization_attempted' = TRUE
    /\ firebase_available' = safely_initialize_firebase
    /\ db_instance' = IF ~initialization_attempted /\ safely_initialize_firebase
                      THEN db_instance + 1
                      ELSE db_instance

\* get_db(): the client, or None.
get_db == IF safely_initialize_firebase THEN "client" ELSE "None"

\* _DBProxy.__getattr__(name): the attribute of the client, or None.
DBProxyGetattr == IF get_db = "None" THEN "None" ELSE "attribute"

\* db.collection(...) and db.transaction() call what the proxy hands back:
\* calling None raises TypeError ('NoneType' object is not callable).
DbCallRaises == DBProxyGetattr = "None"

\* ------------------------------------- Firebase client, overlapping calls
\* Callers of one process whose calls overlap: the setup of the first attempt
\* reads files and talks to the network, and another caller runs meanwhile.
\* _initialization_attempted is tested and set without a blocking call in
\* between, which is one step here.
LatchCalls == {"_safely_initialize_firebase", "get_db"}

\* _safely_initialize_firebase() has returned `available` to the call f of
\* caller t, _db_instance being inst: the call f returns.  get_db() returns
\* None when not available, else _db_instance, which it creates when it is
\* still None.
LatchReturns(t, f, available, inst) ==
    /\ pc' = [pc EXCEPT ![t] = "idle"]
    /\ loc' = [loc EXCEPT ![t] = NoLocals]
    /\ IF f = "get_db"
       THEN LET client == IF inst = 0 THEN inst + 1 ELSE inst
            IN  /\ db_instance' = IF available THEN client ELSE inst
                /\ ret' = Result(f, 0, "none", IF available THEN client ELSE 0)
       ELSE /\ db_instance' = inst
            /\ ret' = Result(f, 0, "none", available)

\* Caller t calls f; _safely_initialize_firebase() runs up to its setup:
\* a later call returns _firebase_available, the first call sets
\* _initialization_attempted and, for Firestore, goes on to the setup.
SafelyInitializeEnter(t, f) ==
    /\ pc[t] = "idle"
    /\ IF initialization_attempted
       THEN /\ LatchReturns(t, f, firebase_available, db_instance)
            /\ UNCHANGED <<initialization_attempted, firebase_available>>
       ELSE /\ initialization_attempted' = TRUE
            /\ IF ~USE_FIREBASE
               THEN /\ LatchReturns(t, f, FALSE, db_instance)
                    /\ UNCHANGED firebase_available
               ELSE /\ pc' = [pc EXCEPT ![t] = "setup"]
                    /\ loc' = [loc EXCEPT ![t] = [NoLocals EXCEPT !.name = f]]
                    /\ UNCHANGED <<firebase_available, db_instance, ret>>
    /\ UNCHANGED <<envVars, clock, sqlSide, fsVars, issued>>

\* The setup ends: on success _db_instance and then _firebase_available are
\* set and the attempt returns True, on failure it returns False.
SafelyInitializeSetup(t) ==
    /\ pc[t] = "setup"
    /\ IF FirebaseSetup
       THEN /\ firebase_available' = TRUE
            /\ LatchReturns(t, loc[t].name, TRUE, db_instance + 1)
       ELSE /\ LatchReturns(t, loc[t].name, FALSE, db_instance)
            /\ UNCHANGED firebase_available
    /\ UNCHANGED <<initialization_attempted, envVars, clock, sqlSide, fsVars, issued>>

\* ------------------------------------------------------------ Firestore
Exists(doc) == DOMAIN doc # {}

\* document(key).set(doc): creates or replaces the whole document
FsSet(coll, key, doc) ==
    [k \in DOMAIN coll \cup {key} |-> IF k = key THEN doc ELSE coll[k]]

\* document(key).update(data): writes the given fields, keeps the others
FsUpdate(coll, key, data) == [coll EXCEPT ![key] = Merge(@, data)]

\* document(key).delete()
FsDelete(coll, key) == [k \in DOMAIN coll \ {key} |-> coll[k]]

\* Document names are strings: str(m) sorts before str(n) as text does.
RECURSIVE NumDigits(_)
NumDigits(n) == IF n < 10 THEN 1 ELSE 1 + NumDigits(n \div 10)
RECURSIVE Pow10(_)
Pow10(e) == IF e = 0 THEN 1 ELSE 10 * Pow10(e - 1)
NameLess(m, n) ==
    LET dm == NumDigits(m)
        dn == NumDigits(n)
        w == IF dm > dn THEN dm ELSE dn
        pm == m * Pow10(w - dm)
        pn == n * Pow10(w - dn)
    IN  pm < pn \/ (pm = pn /\ dm < dn)

\* A query that forgets the where clause: the first document of the collection.
WhereAnyLimit1(coll, k) ==
    {key \in DOMAIN coll : \A other \in DOMAIN coll : other = key \/ NameLess(key, other)}

\* where("id", "==", int(k)).limit(1).stream(): the first matching document
\* in name order, as a set of at most one key.
WhereIdLimit1(coll, k) ==
    LET hits == {key \in DOMAIN coll : "id" \in DOMAIN coll[key] /\ coll[key]["id"] = k}
    IN  {key \in hits : \A other \in hits : other = key \/ NameLess(key, other)}

\* The counter field _next_id(name) uses.
CounterKey(name) == IF name = "professor" THEN "last_professor_id" ELSE "last_rascunho_id"

\* transaction_increment on a snapshot of _meta/counters: the id it returns
\* and asks the transaction to write.  db.transaction()(transaction_increment)
\* is taken to run the function in a transaction, as firestore.transactional
\* does.
TransactionIncrement(snapshot, name) ==
    LET data == IF Exists(snapshot) THEN snapshot ELSE Empty
        last == Get(data, CounterKey(name), 0)
    IN  last + 1

\* The transaction's commit: update() of a document that does not exist fails.
CommitUpdate(meta, name, novo) ==
    IF Exists(meta)
    THEN [err |-> "none", meta |-> Merge(meta, [k \in {CounterKey(name)} |-> novo])]
    ELSE [err |-> "NotFound", meta |-> meta]

\* The Firestore store as one value.
FsStore == [meta |-> fsMeta, prof |-> fsProf, rasc |-> fsRasc]

\* The outcome of an operation whose first db call raises.
NoClient == Outcome("TypeError", 0, FsStore)

FsStoreBecomes(store) ==
    /\ fsMeta' = store.meta
    /\ fsProf' = store.prof
    /\ fsRasc' = store.rasc

\* The call is over: the store is as the outcome says and ret describes it.
ReturnFirestore(op, id, r) ==
    /\ Latched
    /\ FsStoreBecomes(r.store)
    /\ ret' = Result(op, id, r.err, r.val)

\* What the Firestore service can do to an insert: serve it ("none"), fail
\* the counter transaction, which then commits nothing, or fail the write of
\* the document that follows it.  Either failure reaches the caller as the
\* exception the client library raises.
StoreFaults == {"transaction", "write"}
ServiceError == "ServiceUnavailable"

\* _next_id(name): the id, the error of the commit and the counter document
\* the transaction leaves.
NextId(name) ==
    LET novo == TransactionIncrement(fsMeta, name)
        commit == CommitUpdate(fsMeta, name, novo)
    IN  [novo |-> novo, err |-> commit.err, meta |-> commit.meta]

InitDbFirestore ==
    IF DbCallRaises THEN NoClient ELSE
    Outcome("none", 0,
            [FsStore EXCEPT
                !.meta = IF ~Exists(fsMeta)
                         THEN [last_professor_id |-> 0, last_rascunho_id |-> 0]
                         ELSE fsMeta])

init_db_firestore ==
    /\ USE_FIREBASE
    /\ ReturnFirestore("init_db", 0, InitDbFirestore)
    /\ UNCHANGED <<procVars, envVars, clock, sqlSide, issued>>

\* insert_professor(data) when the service does fault to it.
InsertProfessorFirestoreUnder(data, fault) ==
    IF DbCallRaises THEN NoClient ELSE
    LET next == NextId("professor")
        novo_id == next.novo
        payload == Merge(data, [id |-> novo_id, criado_em |-> clock])
    IN  IF fault = "transaction"
        THEN Outcome(ServiceError, 0, FsStore)
        ELSE IF next.err # "none"
        THEN Outcome(next.err, 0, FsStore)
        ELSE IF fault = "write"
        THEN Outcome(ServiceError, 0, [FsStore EXCEPT !.meta = next.meta])
        ELSE Outcome("none", novo_id,
                     [FsStore EXCEPT !.meta = next.meta,
                                     !.prof = FsSet(fsProf, novo_id, payload)])

InsertProfessorFirestore(data) == InsertProfessorFirestoreUnder(data, "none")

insert_professor_firestore_under(data, fault) ==
    /\ USE_FIREBASE
    /\ NextId("professor").novo <= MaxId
    /\ LET r == InsertProfessorFirestoreUnder(data, fault)
       IN  /\ ReturnFirestore("insert_professor", 0, r)
           /\ issued' = IF r.err = "none"
                         THEN [issued EXCEPT !.professor = Append(@, r.val)]
                         ELSE issued
    /\ UNCHANGED <<procVars, envVars, clock, sqlSide>>

insert_professor_firestore(data) == insert_professor_firestore_under(data, "none")

UpdateProfessorFirestore(professor_id, data) ==
    IF DbCallRaises THEN NoClient ELSE
    LET docs == WhereIdLimit1(fsProf, professor_id)
    IN  IF docs = {}
        THEN Outcome("none", 0, FsStore)
        ELSE Outcome("none", 0,
                     [FsStore EXCEPT
                         !.prof = FsUpdate(fsProf, CHOOSE d \in docs : TRUE, data)])

update_professor_firestore(professor_id, data) ==
    /\ USE_FIREBASE
    /\ ReturnFirestore("update_professor", professor_id,
                       UpdateProfessorFirestore(professor_id, data))
    /\ UNCHANGED <<procVars, envVars, clock, sqlSide, issued>>

DeleteProfessorFirestore(professor_id) ==
    IF DbCallRaises THEN NoClient ELSE
    LET docs == WhereIdLimit1(fsProf, professor_id)
    IN  IF docs = {}
        THEN Outcome("none", 0, FsStore)
        ELSE Outcome("none", 0,
                     [FsStore EXCEPT !.prof = FsDelete(fsProf, CHOOSE d \in docs : TRUE)])

delete_professor_firestore(professor_id) ==
    /\ USE_FIREBASE
    /\ ReturnFirestore("delete_professor", professor_id,
                       DeleteProfessorFirestore(professor_id))
    /\ UNCHANGED <<procVars, envVars, clock, sqlSide, issued>>

\* where("cpf", "==", cpf).limit(1).stream(): the first matching document in
\* name order, as a set of at most one key.
WhereCpfLimit1(coll, cpf) ==
    LET hits == {key \in DOMAIN coll :
                    "cpf" \in DOMAIN coll[key] /\ coll[key]["cpf"] = cpf}
    IN  {key \in hits : \A other \in hits : other = key \/ NameLess(key, other)}

\* None (<<>>) or the first document whose cpf field is cpf
find_professor_by_cpf_firestore(cpf) ==
    IF DbCallRaises THEN [err |-> "TypeError", val |-> Empty] ELSE
    LET docs == WhereCpfLimit1(fsProf, cpf)
    IN  IF docs = {} THEN [err |-> "none", val |-> Empty]
        ELSE [err |-> "none", val |-> fsProf[CHOOSE d \in docs : TRUE]]

\* None (<<>>) or the first document whose id field is professor_id
get_professor_firestore(professor_id) ==
    IF DbCallRaises THEN [err |-> "TypeError", val |-> Empty] ELSE
    LET docs == WhereIdLimit1(fsProf, professor_id)
    IN  IF docs = {} THEN [err |-> "none", val |-> Empty]
        ELSE [err |-> "none", val |-> fsProf[CHOOSE d \in docs : TRUE]]

\* The module never binds the name firestore: both imports of it are local
\* to _safely_initialize_firebase and get_db.  Evaluating
\* firestore.Query.DESCENDING raises NameError before any document is read.
list_professores_firestore(order_desc) ==
    IF DbCallRaises THEN [err |-> "TypeError", val |-> <<>>]
    ELSE [err |-> "NameError", val |-> <<>>]

list_rascunhos_firestore ==
    IF DbCallRaises THEN [err |-> "TypeError", val |-> <<>>]
    ELSE [err |-> "NameError", val |-> <<>>]

\* return list_professores(order_desc=True)
export_professores_firestore == list_professores_firestore(TRUE)

\* save_rascunho(dados, rascunho_id) when the service does fault to the
\* insert of a new draft.
SaveRascunhoFirestoreUnder(dados, rascunho_id, fault) ==
    IF DbCallRaises THEN NoClient ELSE
    IF rascunho_id = NoId
    THEN LET next == NextId("rascunho")
             novo == next.novo
             payload == Merge(dados, [id |-> novo, criado_em |-> clock,
                                      atualizado_em |-> clock])
         IN  IF fault = "transaction"
             THEN Outcome(ServiceError, 0, FsStore)
             ELSE IF next.err # "none"
             THEN Outcome(next.err, 0, FsStore)
             ELSE IF fault = "write"
             THEN Outcome(ServiceError, 0, [FsStore EXCEPT !.meta = next.meta])
             ELSE Outcome("none", novo,
                          [FsStore EXCEPT !.meta = next.meta,
                                          !.rasc = FsSet(fsRasc, novo, payload)])
    ELSE LET docs == WhereIdLimit1(fsRasc, rascunho_id)
         IN  IF docs # {}
             THEN Outcome("none", rascunho_id,
                          [FsStore EXCEPT
                              !.rasc = FsUpdate(fsRasc, CHOOSE d \in docs : TRUE,
                                                Merge(dados, [atualizado_em |-> clock]))])
             ELSE Outcome("none", rascunho_id,
                          [FsStore EXCEPT
                              !.rasc = FsSet(fsRasc, rascunho_id,
                                             Merge(dados, [id |-> rascunho_id,
                                                           criado_em |-> clock,
                                                           atualizado_em |-> clock]))])

SaveRascunhoFirestore(dados, rascunho_id) ==
    SaveRascunhoFirestoreUnder(dados, rascunho_id, "none")

save_rascunho_firestore_under(dados, rascunho_id, fault) ==
    /\ USE_FIREBASE
    /\ rascunho_id = NoId => NextId("rascunho").novo <= MaxId
    /\ LET r == SaveRascunhoFirestoreUnder(dados, rascunho_id, fault)
       IN  /\ ReturnFirestore("save_rascunho", rascunho_id, r)
           /\ issued' = IF rascunho_id = NoId /\ r.err = "none"
                         THEN [issued EXCEPT !.rascunho = Append(@, r.val)]
                         ELSE issued
    /\ UNCHANGED <<procVars, envVars, clock, sqlSide>>

save_rascunho_firestore(dados, rascunho_id) ==
    save_rascunho_firestore_under(dados, rascunho_id, "none")

\* None, or the stored document as it is
carregar_rascunho_firestore(rascunho_id) ==
    IF DbCallRaises THEN [err |-> "TypeError", val |-> Empty] ELSE
    LET docs == WhereIdLimit1(fsRasc, rascunho_id)
    IN  IF docs = {} THEN [err |-> "none", val |-> Empty]
        ELSE [err |-> "none", val |-> fsRasc[CHOOSE d \in docs : TRUE]]

RemoverRascunhoFirestore(rascunho_id) ==
    IF DbCallRaises THEN NoClient ELSE
    LET docs == WhereIdLimit1(fsRasc, rascunho_id)
    IN  IF docs = {}
        THEN Outcome("none", 0, FsStore)
        ELSE Outcome("none", 0,
                     [FsStore EXCEPT !.rasc = FsDelete(fsRasc, CHOOSE d \in docs : TRUE)])

remover_rascunho_firestore(rascunho_id) ==
    /\ USE_FIREBASE
    /\ ReturnFirestore("remover_rascunho", rascunho_id,
                       RemoverRascunhoFirestore(rascunho_id))
    /\ UNCHANGED <<procVars, envVars, clock, sqlSide, issued>>

\* -------------------------------------------- Firestore, concurrent callers
\* Each caller runs one call at a time; the round trips of a call to the
\* store are separate steps, and the callers' steps interleave.
seqVars == <<envVars, clock, sqlSide>>

\* init_db, first round trip: meta_ref.get().exists
InitDbGet(p) ==
    /\ USE_FIREBASE
    /\ ~DbCallRaises
    /\ Latched
    /\ pc[p] = "idle"
    /\ IF Exists(fsMeta)
       THEN /\ ret' = Result("init_db", 0, "none", 0)
            /\ UNCHANGED pc
       ELSE /\ pc' = [pc EXCEPT ![p] = "init_set"]
            /\ UNCHANGED ret
    /\ UNCHANGED <<seqVars, fsVars, issued, loc>>

\* init_db, second round trip: meta_ref.set({...: 0, ...: 0})
InitDbSet(p) ==
    /\ pc[p] = "init_set"
    /\ fsMeta' = [last_professor_id |-> 0, last_rascunho_id |-> 0]
    /\ pc' = [pc EXCEPT ![p] = "idle"]
    /\ ret' = Result("init_db", 0, "none", 0)
    /\ UNCHANGED <<seqVars, latchVars, fsProf, fsRasc, issued, loc>>

\* insert_professor(data) or save_rascunho(data, None) is called: the
\* transaction of _next_id(name) begins.
CallInsert(p, name, data) ==
    /\ USE_FIREBASE
    /\ ~DbCallRaises
    /\ Latched
    /\ pc[p] = "idle"
    /\ Get(fsMeta, CounterKey(name), 0) < MaxId
    /\ pc' = [pc EXCEPT ![p] = "txn_get"]
    /\ loc' = [loc EXCEPT ![p] = [NoLocals EXCEPT !.name = name, !.data = data]]
    /\ UNCHANGED <<seqVars, fsVars, ret, issued>>

\* meta_ref.get(transaction=transaction)
TxnGet(p) ==
    /\ pc[p] = "txn_get"
    /\ loc' = [loc EXCEPT ![p].snapshot = fsMeta,
                          ![p].novo = TransactionIncrement(fsMeta, loc[p].name)]
    /\ pc' = [pc EXCEPT ![p] = "txn_commit"]
    /\ UNCHANGED <<seqVars, latchVars, fsVars, ret, issued>>

\* A commit that does not compare the document with the snapshot it read.
CommitUnchecked(meta, snapshot) == TRUE

\* The commit succeeds only if the document read in the transaction has not
\* been written since.
CommitValid(meta, snapshot) == meta = snapshot

\* The commit.  On contention the transaction is run again from the read; a
\* failed update() ends the call with the error.
TxnCommit(p) ==
    /\ pc[p] = "txn_commit"
    /\ IF ~CommitValid(fsMeta, loc[p].snapshot)
       THEN /\ pc' = [pc EXCEPT ![p] = "txn_get"]
            /\ UNCHANGED <<fsMeta, ret, issued, loc>>
       ELSE LET commit == CommitUpdate(fsMeta, loc[p].name, loc[p].novo)
            IN  IF commit.err # "none"
                THEN /\ pc' = [pc EXCEPT ![p] = "idle"]
                     /\ loc' = [loc EXCEPT ![p] = NoLocals]
                     /\ ret' = Result(IF loc[p].name = "professor"
                                      THEN "insert_professor" ELSE "save_rascunho",
                                      0, commit.err, 0)
                     /\ UNCHANGED <<fsMeta, issued>>
                ELSE /\ fsMeta' = commit.meta
                     /\ issued' = [issued EXCEPT ![loc[p].name] = Append(@, loc[p].novo)]
                     /\ pc' = [pc EXCEPT ![p] = "doc_set"]
                     /\ UNCHANGED <<ret, loc>>
    /\ UNCHANGED <<seqVars, latchVars, fsProf, fsRasc>>

\* document(str(novo)).set(payload), and the call returns novo.
DocSet(p) ==
    /\ pc[p] = "doc_set"
    /\ LET novo == loc[p].novo
       IN  IF loc[p].name = "professor"
           THEN /\ fsProf' = FsSet(fsProf, novo,
                                   Merge(loc[p].data, [id |-> novo, criado_em |-> clock]))
                /\ ret' = Result("insert_professor", 0, "none", novo)
                /\ UNCHANGED fsRasc
           ELSE /\ fsRasc' = FsSet(fsRasc, novo,
                                   Merge(loc[p].data, [id |-> novo, criado_em |-> clock,
                                                       atualizado_em |-> clock]))
                /\ ret' = Result("save_rascunho", 0, "none", novo)
                /\ UNCHANGED fsProf
    /\ pc' = [pc EXCEPT ![p] = "idle"]
    /\ loc' = [loc EXCEPT ![p] = NoLocals]
    /\ UNCHANGED <<seqVars, latchVars, fsMeta, issued>>

\* ------------------------------------------------------- specifications
\* The operations of the selected backend, by name.
init_db == init_db_sqlite \/ init_db_firestore
insert_professor(data) ==
    insert_professor_sqlite(data) \/ insert_professor_firestore(data)
update_professor(professor_id, data) ==
    \/ update_professor_sqlite(professor_id, data)
    \/ update_professor_firestore(professor_id, data)
delete_professor(professor_id) ==
    delete_professor_sqlite(professor_id) \/ delete_professor_firestore(professor_id)
save_rascunho(dados, rascunho_id) ==
    \/ save_rascunho_sqlite(dados, rascunho_id)
    \/ save_rascunho_firestore(dados, rascunho_id)
remover_rascunho(rascunho_id) ==
    remover_rascunho_sqlite(rascunho_id) \/ remover_rascunho_firestore(rascunho_id)
list_professores(order_desc) ==
    IF USE_FIREBASE THEN list_professores_firestore(order_desc)
    ELSE list_professores_sqlite(order_desc)
list_rascunhos ==
    IF USE_FIREBASE THEN list_rascunhos_firestore ELSE list_rascunhos_sqlite
carregar_rascunho(rascunho_id) ==
    IF USE_FIREBASE THEN carregar_rascunho_firestore(rascunho_id)
    ELSE carregar_rascunho_sqlite(rascunho_id)
export_professores ==
    IF USE_FIREBASE THEN export_professores_firestore ELSE export_professores_sqlite
find_professor_by_cpf(cpf) ==
    IF USE_FIREBASE THEN find_professor_by_cpf_firestore(cpf)
    ELSE find_professor_by_cpf_sqlite(cpf)
get_professor(professor_id) ==
    IF USE_FIREBASE THEN get_professor_firestore(professor_id)
    ELSE get_professor_sqlite(professor_id)

\* Calls made one after another.  Record operations take every input; of the
\* draft operations, a first save of one payload and the deletes.
Next ==
    \/ Tick
    \/ Finalize
    \/ init_db_sqlite
    \/ init_db_firestore
    \/ \E d \in RecordInputs : insert_professor_sqlite(d)
    \/ \E d \in RecordInputs : insert_professor_firestore(d)
    \/ \E k \in RecordIds, d \in UpdateInputs : update_professor_sqlite(k, d)
    \/ \E k \in RecordIds, d \in UpdateInputs : update_professor_firestore(k, d)
    \/ \E k \in RecordIds : delete_professor_sqlite(k)
    \/ \E k \in RecordIds : delete_professor_firestore(k)
    \/ sqlSeq.rascunhos_professores = 0 /\ save_rascunho_sqlite([nome |-> "Ana"], NoId)
    \/ Get(fsMeta, "last_rascunho_id", 0) = 0 /\ save_rascunho_firestore([nome |-> "Ana"], NoId)
    \/ \E k \in DraftIds : remover_rascunho_sqlite(k)
    \/ \E k \in DraftIds : remover_rascunho_firestore(k)

Spec == Init /\ [][Next]_vars

\* Calls made one after another, the draft operations with every input.
NextDrafts ==
    \/ Tick
    \/ Finalize
    \/ init_db_sqlite
    \/ init_db_firestore
    \/ \E d \in DraftInputs, k \in {NoId} \cup DraftIds : save_rascunho_sqlite(d, k)
    \/ \E d \in DraftInputs, k \in {NoId} \cup DraftIds : save_rascunho_firestore(d, k)
    \/ \E k \in DraftIds : remover_rascunho_sqlite(k)
    \/ \E k \in DraftIds : remover_rascunho_firestore(k)

SpecDrafts == Init /\ [][NextDrafts]_vars

\* Concurrent callers on the Firestore backend, in an environment where the
\* client resolves.
InitFirestore == Init /\ USE_FIREBASE /\ resolution = "ok"

InsertSteps ==
    \/ \E p \in Procs : CallInsert(p, "professor", FullData("Ana", "111"))
    \/ \E p \in Procs : CallInsert(p, "rascunho", [nome |-> "Ana"])
    \/ \E p \in Procs : TxnGet(p)
    \/ \E p \in Procs : TxnCommit(p)
    \/ \E p \in Procs : DocSet(p)

\* init_db has finished before the callers overlap.
NextInserts ==
    \/ init_db_firestore
    \/ InsertSteps

SpecInserts == InitFirestore /\ [][NextInserts]_vars

\* init_db runs on every process start, next to the other processes' calls.
NextStartup ==
    \/ \E p \in Procs : InitDbGet(p)
    \/ \E p \in Procs : InitDbSet(p)
    \/ InsertSteps

SpecStartup == InitFirestore /\ [][NextStartup]_vars

\* Inserts and updates made one after another, the updates with every input.
NextUpdates ==
    \/ Tick
    \/ Finalize
    \/ init_db_sqlite
    \/ init_db_firestore
    \/ \E d \in RecordInputs : insert_professor_sqlite(d)
    \/ \E d \in RecordInputs : insert_professor_firestore(d)
    \/ \E k \in RecordIds, d \in UpdateInputsWithKeys : update_professor_sqlite(k, d)
    \/ \E k \in RecordIds, d \in UpdateInputsWithKeys : update_professor_firestore(k, d)

SpecUpdates == Init /\ [][NextUpdates]_vars

\* Inserts on the Firestore backend, made one after another, to which the
\* service may fault.
NextFaults ==
    \/ Tick
    \/ init_db_firestore
    \/ \E d \in RecordInputs, fault \in {"none"} \cup StoreFaults :
          insert_professor_firestore_under(d, fault)
    \/ \E d \in DraftInputs, fault \in {"none"} \cup StoreFaults :
          save_rascunho_firestore_under(d, NoId, fault)
    \/ \E k \in RecordIds : delete_professor_firestore(k)

SpecFaults == InitFirestore /\ [][NextFaults]_vars

\* Two deployments, one on each backend, are given the same calls one after
\* another.  ret holds both outcomes of the last call, the SQLite one first.
ReturnBoth(op, id, s, f) ==
    /\ SqlStoreBecomes(s.store)
    /\ Latched
    /\ FsStoreBecomes(f.store)
    /\ ret' = Result(op, id, <<s.err, f.err>>, <<s.val, f.val>>)
    /\ UNCHANGED <<procVars, envVars, clock, issued>>

BothInitDb == ReturnBoth("init_db", 0, InitDbSqlite, InitDbFirestore)

BothInsertProfessor(data) ==
    /\ sqlSeq.professores < MaxId
    /\ NextId("professor").novo <= MaxId
    /\ ReturnBoth("insert_professor", 0,
                  InsertProfessorSqlite(data), InsertProfessorFirestore(data))

BothUpdateProfessor(professor_id, data) ==
    ReturnBoth("update_professor", professor_id,
               UpdateProfessorSqlite(professor_id, data),
               UpdateProfessorFirestore(professor_id, data))

BothDeleteProfessor(professor_id) ==
    ReturnBoth("delete_professor", professor_id,
               DeleteProfessorSqlite(professor_id), DeleteProfessorFirestore(professor_id))

BothSaveRascunho(dados, rascunho_id) ==
    /\ InsertsDraftSqlite(rascunho_id) => sqlSeq.rascunhos_professores < MaxId
    /\ rascunho_id = NoId => NextId("rascunho").novo <= MaxId
    /\ ReturnBoth("save_rascunho", rascunho_id,
                  SaveRascunhoSqlite(dados, rascunho_id),
                  SaveRascunhoFirestore(dados, rascunho_id))

BothRemoverRascunho(rascunho_id) ==
    ReturnBoth("remover_rascunho", rascunho_id,
               RemoverRascunhoSqlite(rascunho_id), RemoverRascunhoFirestore(rascunho_id))

\* The calls the two deployments are given: two forms with the same cpf, one
\* change of name, one draft payload.
BothRecordInputs == {FullData("Ana", "111"), FullData("Bia", "111")}
BothUpdateInputs == {[nome |-> "Cid"]}
BothDraftInputs == {[nome |-> "Ana"]}

\* All calls are made within one second of the clock.
NextBoth ==
    \/ Finalize
    \/ BothInitDb
    \/ \E d \in BothRecordInputs : BothInsertProfessor(d)
    \/ \E k \in RecordIds, d \in BothUpdateInputs : BothUpdateProfessor(k, d)
    \/ \E k \in RecordIds : BothDeleteProfessor(k)
    \/ \E d \in BothDraftInputs, k \in {NoId} \cup DraftIds : BothSaveRascunho(d, k)
    \/ \E k \in DraftIds : BothRemoverRascunho(k)

SpecBoth == InitFirestore /\ [][NextBoth]_vars

\* The callers of one process reach the Firebase client while the clock runs.
NextLatch ==
    \/ Tick
    \/ \E t \in Procs, f \in LatchCalls : SafelyInitializeEnter(t, f)
    \/ \E t \in Procs : SafelyInitializeSetup(t)

SpecLatch == Init /\ [][NextLatch]_vars

\* ------------------------------------------------------------- claims
\* init_db has run on the selected backend.
Initialized == IF USE_FIREBASE THEN Exists(fsMeta) ELSE sqlSchema

\* The stored Records and Drafts of the selected backend, and their ids.
Records == IF USE_FIREBASE THEN fsProf ELSE sqlProf
Drafts == IF USE_FIREBASE THEN fsRasc ELSE sqlRasc
RecordIdsStored == {Records[k]["id"] : k \in DOMAIN Records}
DraftIdsStored == {Drafts[k]["id"] : k \in DOMAIN Drafts}
Counters == <<sqlSeq, fsMeta>>

\* C1: the ids insert_professor returns, in call order, strictly increase, so
\* an id once returned is never returned again, also after its record was
\* deleted.
C1_IdsStrictlyIncrease ==
    \A i, j \in 1..Len(issued.professor) :
        i < j => issued.professor[i] < issued.professor[j]

\* Two ids were returned and the record of the first one has been deleted.
C1_Witness ==
    /\ Len(issued.professor) = 2
    /\ issued.professor[1] \notin RecordIdsStored
    /\ issued.professor[2] \in RecordIdsStored

\* C2: an insert whose cpf is already stored raises the conflict error and
\* leaves the stored records unchanged.
C2_DuplicateCpfRejected ==
    [][\A d \in RecordInputs :
          (/\ insert_professor(d)
           /\ \E k \in DOMAIN Records : Records[k]["cpf"] = d["cpf"])
          => (ret'.err = "IntegrityError" /\ UNCHANGED <<sqlProf, fsProf>>)]_vars

\* C5: on an initialised store, update_professor, delete_professor and
\* remover_rascunho called with an id no stored entity has return without
\* error and leave the records, the drafts and the id counters unchanged.
\* (Every step either returns without error and leaves the stores alone, or
\* is not such a call.)
C5_MissingIdIsNoOp ==
    [][\A k \in RecordIds \cup DraftIds :
          \/ ret'.err = "none" /\ UNCHANGED <<sqlVars, fsVars>>
          \/ ~(/\ Initialized
               /\ ret'.id = k
               /\ \/ /\ k \notin RecordIdsStored
                     /\ \/ \E d \in UpdateInputs : update_professor(k, d)
                        \/ delete_professor(k)
                  \/ /\ k \notin DraftIdsStored
                     /\ remover_rascunho(k))]_vars

\* update_professor has just returned for an id that no record has (update
\* never removes a record), with a record and a draft in the store.
C5_Witness ==
    /\ ret.op = "update_professor"
    /\ ret.err = "none"
    /\ ret.id \notin RecordIdsStored
    /\ RecordIdsStored # {}
    /\ DraftIdsStored # {}

\* C6: on an initialised store list_professores completes without error and
\* returns every stored record exactly once, ids strictly descending for
\* order_desc and strictly ascending otherwise.
C6_ListRecordsOrdered ==
    Initialized =>
        \A order_desc \in BOOLEAN :
            LET r == list_professores(order_desc)
            IN  /\ r.err = "none"
                /\ {r.val[i] : i \in 1..Len(r.val)} = {Records[k] : k \in DOMAIN Records}
                /\ Len(r.val) = Cardinality(DOMAIN Records)
                /\ \A i, j \in 1..Len(r.val) :
                      i < j => IF order_desc THEN r.val[i]["id"] > r.val[j]["id"]
                               ELSE r.val[i]["id"] < r.val[j]["id"]

\* The payload a stored draft carries: the decoded dados_json column, or the
\* fields of the document other than the three bookkeeping ones.
PayloadOf(draft) ==
    IF USE_FIREBASE
    THEN [f \in DOMAIN draft \ NatKeys |-> draft[f]]
    ELSE JsonLoads(draft["dados_json"])

DraftsWithId(k) == {key \in DOMAIN Drafts : Drafts[key]["id"] = k}

\* C3: a save_rascunho(d2, k) that follows a save_rascunho(d1, k) for the same
\* explicit id k leaves exactly one draft with id k, which carries d2, the
\* time of the second call as atualizado_em and the criado_em the first call
\* left; both calls return k.
C3_SaveTwiceSameId ==
    [][\A k \in DraftIds, d2 \in DraftInputs :
          (/\ Initialized
           /\ ret.op = "save_rascunho" /\ ret.id = k /\ ret.err = "none"
           /\ save_rascunho(d2, k))
          => /\ ret.val = k
             /\ ret'.err = "none" /\ ret'.val = k
             /\ Cardinality(DraftsWithId(k)') = 1
             /\ Cardinality(DraftsWithId(k)) = 1
             /\ \A key \in DraftsWithId(k)' :
                   /\ PayloadOf(Drafts[key])' = d2
                   /\ Drafts'[key]["atualizado_em"] = clock
                   /\ \A old \in DraftsWithId(k) :
                         Drafts'[key]["criado_em"] = Drafts[old]["criado_em"]]_vars

\* C4: after save_rascunho(d, k) returns id, carregar_rascunho(id) is a
\* structure with exactly the keys id, dados, criado_em and atualizado_em
\* whose dados equals d.
C4_LoadReturnsSavedPayload ==
    [][\A k \in {NoId} \cup DraftIds, d \in DraftInputs, id \in DraftIds :
          (Initialized /\ save_rascunho(d, k) /\ ret'.err = "none" /\ ret'.val = id)
          => LET r == carregar_rascunho(id)'
             IN  /\ r.err = "none"
                 /\ DOMAIN r.val = {"id", "dados", "criado_em", "atualizado_em"}
                 /\ r.val["id"] = id
                 /\ r.val["dados"] = d]_vars

\* C7: on an initialised store list_rascunhos returns the stored drafts,
\* later atualizado_em first and, for equal atualizado_em, larger id first.
C7_ListDraftsOrdered ==
    Initialized =>
        LET r == list_rascunhos
        IN  /\ r.err = "none"
            /\ {r.val[i]["id"] : i \in 1..Len(r.val)} = DraftIdsStored
            /\ \A i, j \in 1..Len(r.val) :
                  i < j =>
                    \/ r.val[i]["atualizado_em"] > r.val[j]["atualizado_em"]
                    \/ /\ r.val[i]["atualizado_em"] = r.val[j]["atualizado_em"]
                       /\ r.val[i]["id"] > r.val[j]["id"]

\* The summary list_rascunhos is to give: one entry per stored draft, each
\* with the five summary keys and no payload.
SummaryKeys == {"id", "nome_referencia", "cpf", "criado_em", "atualizado_em"}
ListIsSummary(r) ==
    /\ r.err = "none"
    /\ Len(r.val) = Cardinality(DOMAIN Drafts)
    /\ {r.val[i]["id"] : i \in 1..Len(r.val)} = DraftIdsStored
    /\ \A i \in 1..Len(r.val) : DOMAIN r.val[i] = SummaryKeys

\* C8: after every save_rascunho and remover_rascunho that returns,
\* list_rascunhos is the summary of the stored drafts, and the entry of the
\* draft just saved carries the nome and cpf of the payload just given.
C8_ListDraftsSummary ==
    [][/\ \A k \in {NoId} \cup DraftIds, d \in DraftInputs :
             (Initialized /\ save_rascunho(d, k) /\ ret'.err = "none")
             => /\ ListIsSummary(list_rascunhos)'
                /\ \A i \in 1..Len(list_rascunhos.val') :
                      list_rascunhos.val'[i]["id"] = ret'.val
                      => /\ list_rascunhos.val'[i]["nome_referencia"] = Get(d, "nome", "")
                         /\ list_rascunhos.val'[i]["cpf"] = Get(d, "cpf", "")
       /\ \A k \in DraftIds :
             (Initialized /\ remover_rascunho(k) /\ ret'.err = "none")
             => ListIsSummary(list_rascunhos)']_vars

NoDuplicates(seq) == \A i, j \in 1..Len(seq) : i # j => seq[i] # seq[j]

\* The collection a caller's insert writes to.
TargetOf(p) == IF loc[p].name = "professor" THEN fsProf ELSE fsRasc

C10_InitDbSafe ==
    [][\A p \in Procs :
          (InitDbGet(p) \/ InitDbSet(p))
          => /\ UNCHANGED <<fsProf, fsRasc>>
             /\ Exists(fsMeta) => fsMeta' = fsMeta
             /\ pc'[p] = "idle" => Exists(fsMeta')]_vars
\* C11: the two deployments, given the same calls from an empty initialised
\* store, agree after every call: the call raised the same error or returned
\* the same value on both, and get_professor, carregar_rascunho and
\* list_rascunhos answer the same on both.
C11_BackendsEquivalent ==
    (sqlSchema /\ Exists(fsMeta)) =>
        /\ ret.err[1] = ret.err[2]
        /\ ret.val[1] = ret.val[2]
        /\ \A k \in RecordIds : get_professor_sqlite(k) = get_professor_firestore(k)
        /\ \A k \in DraftIds : carregar_rascunho_sqlite(k) = carregar_rascunho_firestore(k)
        /\ list_rascunhos_sqlite = list_rascunhos_firestore
\* What a caller can tell apart from a data-level error and from a crash: an
\* error raised to say that the backend is unavailable.
DataErrors == {"IntegrityError", "OperationalError", "NotFound"}
PythonFaults == {"TypeError", "NameError"}
SignalsUnavailable(err) == err \notin {"none"} \cup DataErrors \cup PythonFaults

\* C12: with the document backend selected and no client resolved, get_db
\* returns None without raising, and every operation called, writing or
\* reading, ends with an error that says the backend is unavailable: it
\* neither returns as if it had worked nor dies of a Python fault.
C12_UnavailableIsSignalled ==
    (USE_FIREBASE /\ resolution # "ok" /\ ret.op # "none") =>
        /\ get_db = "None"
        /\ SignalsUnavailable(ret.err)
        /\ \A order_desc \in BOOLEAN :
              SignalsUnavailable(list_professores(order_desc).err)
        /\ SignalsUnavailable(list_rascunhos.err)
        /\ \A k \in DraftIds : SignalsUnavailable(carregar_rascunho(k).err)
\* Every field of a stored record.
RecordFields == ColSet \cup {"id", "criado_em"}

\* C13: on an initialised store export_professores completes without error
\* and returns what list_professores(True) returns: the stored records, ids
\* descending, each with every record field.
C13_ExportIsFullList ==
    Initialized =>
        LET e == export_professores
            l == list_professores(TRUE)
        IN  /\ e.err = "none"
            /\ l.err = "none"
            /\ Len(e.val) = Cardinality(DOMAIN Records)
            /\ \A i \in 1..Len(e.val) : DOMAIN e.val[i] = RecordFields
            /\ e.val = l.val
\* The cpf values find_professor_by_cpf is asked for; no input carries "333".
Cpfs == {"111", "222", "333"}
RecordsWithCpf(c) == {k \in DOMAIN Records : Records[k]["cpf"] = c}

\* C14: on an initialised store find_professor_by_cpf(c) returns None when no
\* stored record has cpf c, and otherwise there is exactly one stored record
\* with cpf c and it is the one returned.
C14_FindByCpf ==
    Initialized =>
        \A c \in Cpfs :
            LET r == find_professor_by_cpf(c)
            IN  /\ r.err = "none"
                /\ IF RecordsWithCpf(c) = {} THEN r.val = Empty
                   ELSE /\ Cardinality(RecordsWithCpf(c)) = 1
                        /\ \A k \in RecordsWithCpf(c) : r.val = Records[k]
\* No two stored records have the same cpf.
CpfUnique ==
    \A j, k \in DOMAIN Records : j # k => Records[j]["cpf"] # Records[k]["cpf"]

\* The records other than the one with id k are what they were.
OthersKept(k) ==
    \A j \in DOMAIN Records :
        Records[j]["id"] # k => (j \in DOMAIN Records' /\ Records'[j] = Records[j])

\* C15: in every state reached by insert_professor, update_professor (also
\* when it changes the cpf) and delete_professor calls no two stored records
\* have the same cpf, and an insert or an update changes no record other
\* than the one it creates or is given.
C15_CpfStaysUnique ==
    /\ []CpfUnique
    /\ [][/\ \A d \in RecordInputs : insert_professor(d) => OthersKept(0)
          /\ \A k \in RecordIds, d \in UpdateInputs :
                update_professor(k, d) => OthersKept(k)]_vars
\* C16: on an initialised store save_rascunho(d, k) with an explicit id k that
\* no stored draft has returns k and leaves a draft with id k, which
\* carregar_rascunho(k) then returns.
C16_SaveCreatesAtGivenId ==
    [][\A k \in DraftIds, d \in DraftInputs :
          (Initialized /\ k \notin DraftIdsStored /\ save_rascunho(d, k))
          => /\ ret'.err = "none"
             /\ ret'.val = k
             /\ k \in DraftIdsStored'
             /\ LET r == carregar_rascunho(k)'
                IN  r.err = "none" /\ r.val # Empty /\ r.val["id"] = k]_vars
\* C17: no two stored drafts have the same id, and on an initialised store
\* save_rascunho(d) without an id returns an id that no stored draft had,
\* adds exactly one draft and leaves every draft stored before as it was.
C17_FreshDraftId ==
    /\ [](\A j, k \in DOMAIN Drafts : j # k => Drafts[j]["id"] # Drafts[k]["id"])
    /\ [][\A d \in DraftInputs :
            (Initialized /\ save_rascunho(d, NoId) /\ ret'.err = "none")
            => /\ ret'.val \notin DraftIdsStored
               /\ ret'.val \in DraftIdsStored'
               /\ Cardinality(DOMAIN Drafts') = Cardinality(DOMAIN Drafts) + 1
               /\ \A k \in DOMAIN Drafts :
                     k \in DOMAIN Drafts' /\ Drafts'[k] = Drafts[k]]_vars
\* C18: update_professor(k, d) for the id k of a stored record, whatever keys
\* d has, leaves every record stored with its id and criado_em, changes no
\* record whose id is not k and changes no field that d does not have.
C18_UpdateFrame ==
    [][\A k \in RecordIds, d \in UpdateInputsWithKeys :
          (ret'.id = k /\ k \in RecordIdsStored /\ update_professor(k, d))
          => \A j \in DOMAIN Records :
                /\ j \in DOMAIN Records'
                /\ Records'[j]["id"] = Records[j]["id"]
                /\ Records'[j]["criado_em"] = Records[j]["criado_em"]
                /\ Records[j]["id"] # k => Records'[j] = Records[j]
                /\ \A f \in DOMAIN Records[j] \ DOMAIN d :
                      f \in DOMAIN Records'[j] /\ Records'[j][f] = Records[j][f]]_vars
\* The ids handed out are 1, 2, 3, ... in this order.
Contiguous(seq) == \A i \in 1..Len(seq) : seq[i] = i

\* C19: an insert_professor or save_rascunho(None) that ends with an error,
\* whichever step failed, leaves the counters and the collections as they
\* were, and the ids returned by the calls that succeed are 1, 2, 3, ...
\* with no value repeated or left out.
C19_IdAssignmentAllOrNothing ==
    /\ [][\A fault \in {"none"} \cup StoreFaults :
            (/\ ret'.err # "none"
             /\ \/ \E d \in RecordInputs : insert_professor_firestore_under(d, fault)
                \/ \E d \in DraftInputs : save_rascunho_firestore_under(d, NoId, fault))
            => UNCHANGED fsVars]_vars
    /\ [](Contiguous(issued.professor) /\ Contiguous(issued.rascunho))
\* C20: between two calls no connection opened by an earlier call is still
\* open, whether that call returned or raised.
C20_NoOpenConnection == ~unclosed

\* What the first attempt of _safely_initialize_firebase() decides.
FirstAttempt == USE_FIREBASE /\ FirebaseSetup

\* A step in which a call that found _initialization_attempted set returns.
LaterCall == initialization_attempted /\ pc' = pc

\* C21: initialization is a one-shot latch.  _initialization_attempted, once
\* set, stays set, and the setup is begun only by the call that sets it, so
\* it runs at most once; every call that finds it set returns the
\* availability the first attempt decides; when the first attempt fails such
\* a get_db() returns None; and _db_instance, once a client, is never
\* replaced.
C21_OneShotLatch ==
    [][/\ initialization_attempted => initialization_attempted'
       /\ (\E t \in Procs : pc[t] # "setup" /\ pc'[t] = "setup")
            => ~initialization_attempted
       /\ LaterCall /\ ret'.op = "_safely_initialize_firebase"
            => ret'.val = FirstAttempt
       /\ LaterCall /\ ret'.op = "get_db" /\ ~FirstAttempt => ret'.val = 0
       /\ db_instance # 0 => db_instance' = db_instance]_vars
=============================================================================
